---------------------------- MODULE Spec2Model ----------------------------
(***************************************************************************)
(* A model of the tx-engine ledger: src/src/engine.rs (Engine and its five *)
(* handlers, and output), src/src/types.rs (to_fixed, Account::total) and  *)
(* the read-process-output loop of src/src/main.rs.                        *)
(*                                                                         *)
(* Monetary fields are i64 in the source.  The model keeps the signed      *)
(* two's-complement shape of that type but narrows it to I64_BITS bits, so *)
(* that the range boundary (saturation, overflow of a plain +) is within   *)
(* reach of a few records.                                                 *)
(***************************************************************************)
EXTENDS Integers, Sequences, FiniteSets, TLC

(***************************************************************************)
(* Bounds of the model.                                                    *)
(***************************************************************************)
I64_BITS == 20
MaxClient == 2
MaxTx == 2
MaxTransfers == 2
MaxLargeTx == 3
MaxLargeDeposits == 3

(***************************************************************************)
(* types.rs                                                                *)
(***************************************************************************)
SCALE == 10000

I64_MAX == 2^(I64_BITS - 1) - 1
I64_MIN == -(2^(I64_BITS - 1))

Clients == 1..MaxClient
TxIds == 1..MaxTx

\* rust_decimal's Decimal is a mantissa m and a scale e: the value m / 10^e.
\* Option<Decimal> carries the flag `some`.
NoAmount == [some |-> FALSE, m |-> 0, e |-> 0]
Dec(m, e) == [some |-> TRUE, m |-> m, e |-> e]

\* The amounts the input stream may carry in a deposit or withdrawal record:
\* absent, 0, -10.0, 0.00005, 10.0, 20.0, and the largest value whose
\* fixed-point form fits the integer type.
Amounts ==
    { NoAmount, Dec(0, 0), Dec(-100, 1), Dec(5, 5), Dec(100, 1), Dec(200, 1),
      Dec(I64_MAX, 4) }

TruncDiv(a, b) == IF a >= 0 THEN a \div b ELSE -((-a) \div b)

\* (d * Decimal::from(SCALE)).trunc().to_i64().unwrap_or(0)
\* d * SCALE is m * SCALE / 10^e.  SCALE is a power of ten, so one of SCALE and
\* 10^e divides the other: the product and the truncation toward zero are
\* taken in one step, which keeps the intermediate values small.
\* Mutant: the scaled value is rounded to the nearest integer, not truncated.
to_fixed_rounds(d) ==
    LET scaled == IF 10^d.e <= SCALE THEN d.m * (SCALE \div 10^d.e)
                  ELSE TruncDiv(2 * d.m + (10^d.e \div SCALE),
                                2 * (10^d.e \div SCALE))
    IN  IF scaled >= I64_MIN /\ scaled <= I64_MAX THEN scaled ELSE 0

to_fixed(d) ==
    LET scaled == IF 10^d.e <= SCALE THEN d.m * (SCALE \div 10^d.e)
                  ELSE TruncDiv(d.m, 10^d.e \div SCALE)
    IN  IF scaled >= I64_MIN /\ scaled <= I64_MAX THEN scaled ELSE 0

saturating_add(a, b) ==
    IF a + b > I64_MAX THEN I64_MAX
    ELSE IF a + b < I64_MIN THEN I64_MIN
    ELSE a + b

saturating_sub(a, b) ==
    IF a - b > I64_MAX THEN I64_MAX
    ELSE IF a - b < I64_MIN THEN I64_MIN
    ELSE a - b

\* The result of a plain i64 `+` when overflow checks are off: two's complement.
wrapping_add(a, b) == ((a + b - I64_MIN) % (2^I64_BITS)) + I64_MIN

Overflows(x) == x > I64_MAX \/ x < I64_MIN

\* Account::default()
DefaultAccount == [available |-> 0, held |-> 0, locked |-> FALSE]

\* The records the reader can hand to process().
Records ==
    [tx_type : {"deposit", "withdrawal"}, client : Clients, tx : TxIds,
     amount : Amounts]
    \cup
    [tx_type : {"dispute", "resolve", "chargeback"}, client : Clients,
     tx : TxIds, amount : {NoAmount}]


\* One call of process() per element: the sequence of
\* test_locked_account_allows_resolve.
Scenario ==
    << [tx_type |-> "deposit", client |-> 1, tx |-> 1, amount |-> Dec(100, 1)],
       [tx_type |-> "deposit", client |-> 1, tx |-> 2, amount |-> Dec(200, 1)],
       [tx_type |-> "dispute", client |-> 1, tx |-> 2, amount |-> NoAmount],
       [tx_type |-> "dispute", client |-> 1, tx |-> 1, amount |-> NoAmount],
       [tx_type |-> "chargeback", client |-> 1, tx |-> 1, amount |-> NoAmount],
       [tx_type |-> "resolve", client |-> 1, tx |-> 2, amount |-> NoAmount] >>

(***************************************************************************)
(* State.                                                                  *)
(*   accounts, transactions : the two HashMaps of Engine, as functions on  *)
(*       the set of keys present;                                          *)
(*   pc, out, panicked : main.rs's position (reading records / done), the  *)
(*       Vec returned by output() as a set of views, and whether the       *)
(*       process panicked;                                                 *)
(*   fed : how many deposit and withdrawal records the reader has          *)
(*       delivered.                                                        *)
(* History variables, written by the handlers and read by no handler:      *)
(*   ok : whether the most recent process() call ran its handler to the    *)
(*       end (accepted) or returned early / skipped its effect (rejected); *)
(*   sumDeposits, sumWithdrawals : per client, the sum of the fixed-point  *)
(*       amounts of accepted deposits / withdrawals;                       *)
(*   chargedBack : the (client, tx) pairs of accepted chargebacks;         *)
(*   clamped : the clients one of whose balance updates was clamped by a   *)
(*       saturating operation;                                             *)
(*   reused : whether some accepted deposit carried a tx id that already   *)
(*       had a stored transaction;                                         *)
(*   cycle : the dispute most recently accepted and not yet followed by    *)
(*       another call (phase "disputed"), or followed by exactly one call, *)
(*       a resolve of the same client and tx (phase "resolved"): its       *)
(*       client and tx, the account's available and held before the        *)
(*       dispute, and whether one of the dispute's two updates was         *)
(*       clamped; phase "none" otherwise;                                  *)
(*   scenario : how many records of Scenario the calls so far have         *)
(*       followed, -1 once they departed from it.                          *)
(***************************************************************************)
VARIABLES accounts, transactions, pc, out, panicked, fed,
          ok, sumDeposits, sumWithdrawals, chargedBack, clamped, reused, cycle,
          scenario

engine == <<accounts, transactions>>
sums == <<sumDeposits, sumWithdrawals>>
vars == <<accounts, transactions, pc, out, panicked, fed,
          ok, sumDeposits, sumWithdrawals, chargedBack, clamped, reused, cycle,
          scenario>>

NoCycle ==
    [phase |-> "none", client |-> 0, tx |-> 0, available |-> 0, held |-> 0,
     clamps |-> FALSE]

\* Engine::new() and the start of run()
Init ==
    /\ accounts = <<>>
    /\ transactions = <<>>
    /\ pc = "reading"
    /\ out = {}
    /\ panicked = FALSE
    /\ fed = 0
    /\ ok = FALSE
    /\ sumDeposits = [c \in Clients |-> 0]
    /\ sumWithdrawals = [c \in Clients |-> 0]
    /\ chargedBack = {}
    /\ reused = FALSE
    /\ clamped = {}
    /\ cycle = NoCycle
    /\ scenario = 0

\* self.accounts.entry(client).or_default(): the map with the key present.
or_default(accts, client) ==
    IF client \in DOMAIN accts THEN accts ELSE (client :> DefaultAccount) @@ accts

\* HashMap::insert: last write wins.
\* Mutant: first write wins.
insert_keeps_first(map, key, value) ==
    IF key \in DOMAIN map THEN map ELSE (key :> value) @@ map

insert(map, key, value) == (key :> value) @@ map

\* let Some(decimal_amount) = tx.amount else { return };
\* if decimal_amount <= Decimal::ZERO { return; }
\* Mutant: the `<= Decimal::ZERO` check is missing.
amount_rejected_only_missing(tx) == ~tx.amount.some

amount_rejected(tx) == ~tx.amount.some \/ tx.amount.m <= 0

\* Mutant: the lock is never consulted.
is_locked_never(account) == FALSE

is_locked(account) == account.locked

deposit_effect(account, amount) ==
    [account EXCEPT !.available = saturating_add(account.available, amount)]

stored_deposit(tx, amount) ==
    [client |-> tx.client, amount |-> amount, dispute_state |-> "None"]

\* Mutant: a withdrawal of the whole balance is refused.
withdrawal_sufficient_strict(account, amount) == account.available > amount

withdrawal_sufficient(account, amount) == account.available >= amount

withdrawal_effect(account, amount) ==
    [account EXCEPT !.available = saturating_sub(account.available, amount)]

\* Mutant: only a transaction under dispute is refused, a charged-back one
\* can be disputed again.
dispute_rejects_only_disputed(stored, tx) ==
    stored.client # tx.client \/ stored.dispute_state = "Disputed"

\* Mutant: the owner of the transaction is not compared with the record's
\* client.
dispute_rejects_ignores_client(stored, tx) == stored.dispute_state # "None"

dispute_rejects(stored, tx) ==
    stored.client # tx.client \/ stored.dispute_state # "None"

\* Mutant: the amount is added to held and not taken from available.
dispute_effect_keeps_available(account, stored) ==
    [account EXCEPT !.held = saturating_add(account.held, stored.amount)]

dispute_effect(account, stored) ==
    [account EXCEPT
       !.available = saturating_sub(account.available, stored.amount),
       !.held = saturating_add(account.held, stored.amount)]

resolve_rejects(stored, tx) ==
    stored.client # tx.client \/ stored.dispute_state # "Disputed"

\* Mutant: the amount leaves held and is not returned to available.
resolve_effect_drops_funds(account, stored) ==
    [account EXCEPT !.held = saturating_sub(account.held, stored.amount)]

\* Mutant: a resolve lifts the lock.
resolve_effect_unlocks(account, stored) ==
    [account EXCEPT
       !.held = saturating_sub(account.held, stored.amount),
       !.available = saturating_add(account.available, stored.amount),
       !.locked = FALSE]

resolve_effect(account, stored) ==
    [account EXCEPT
       !.held = saturating_sub(account.held, stored.amount),
       !.available = saturating_add(account.available, stored.amount)]

\* Mutant: a transaction that was never disputed can be charged back.
chargeback_rejects_only_charged_back(stored, tx) ==
    stored.client # tx.client \/ stored.dispute_state = "ChargedBack"

chargeback_rejects(stored, tx) ==
    stored.client # tx.client \/ stored.dispute_state # "Disputed"

\* Mutant: the account is not locked.
chargeback_effect_no_lock(account, stored) ==
    [account EXCEPT !.held = saturating_sub(account.held, stored.amount)]

\* Mutant: the amount stays in held.
chargeback_effect_keeps_held(account, stored) ==
    [account EXCEPT !.locked = TRUE]

\* Mutant: the amount leaves held and is returned to available.
chargeback_effect_returns_funds(account, stored) ==
    [account EXCEPT
       !.held = saturating_sub(account.held, stored.amount),
       !.available = saturating_add(account.available, stored.amount),
       !.locked = TRUE]

chargeback_effect(account, stored) ==
    [account EXCEPT
       !.held = saturating_sub(account.held, stored.amount),
       !.locked = TRUE]

\* An early return that has touched nothing.
Return ==
    /\ ok' = FALSE
    /\ cycle' = NoCycle
    /\ UNCHANGED <<engine, sums, chargedBack, clamped, reused>>

\* A return after entry(client).or_default() that moves no funds.
ReturnAfterEntry(accts) ==
    /\ accounts' = accts
    /\ ok' = FALSE
    /\ cycle' = NoCycle
    /\ UNCHANGED <<transactions, sums, chargedBack, clamped, reused>>

Clamp(client, clamps) == IF clamps THEN clamped \cup {client} ELSE clamped

\* deposit, from the balance update to the insert.
deposit_accept(tx, accts, amount) ==
    LET account == accts[tx.client]
    IN  /\ accounts' = [accts EXCEPT
                          ![tx.client] = deposit_effect(account, amount)]
        /\ transactions' =
               insert(transactions, tx.tx, stored_deposit(tx, amount))
        /\ ok' = TRUE
        /\ cycle' = NoCycle
        /\ sumDeposits' = [sumDeposits EXCEPT ![tx.client] = @ + amount]
        /\ clamped' = Clamp(tx.client, Overflows(account.available + amount))
        /\ reused' = (reused \/ tx.tx \in DOMAIN transactions)
        /\ UNCHANGED <<sumWithdrawals, chargedBack>>

\* Mutant: the stored transaction is inserted before the lock is checked.
deposit_stores_before_lock_check(tx) ==
    IF amount_rejected(tx) THEN Return
    ELSE
      LET amount == to_fixed(tx.amount)
          accts == or_default(accounts, tx.client)
      IN  IF is_locked(accts[tx.client])
          THEN /\ accounts' = accts
               /\ transactions' =
                      insert(transactions, tx.tx, stored_deposit(tx, amount))
               /\ ok' = FALSE
               /\ cycle' = NoCycle
               /\ UNCHANGED <<sums, chargedBack, clamped, reused>>
          ELSE deposit_accept(tx, accts, amount)

deposit(tx) ==
    IF amount_rejected(tx) THEN Return
    ELSE
      LET amount == to_fixed(tx.amount)
          accts == or_default(accounts, tx.client)
      IN  IF is_locked(accts[tx.client]) THEN ReturnAfterEntry(accts)
          ELSE deposit_accept(tx, accts, amount)

\* Mutant: an accepted withdrawal is stored like a deposit.
withdrawal_accept_stores(tx, accts, amount) ==
    LET account == accts[tx.client]
    IN  /\ accounts' = [accts EXCEPT
                          ![tx.client] = withdrawal_effect(account, amount)]
        /\ transactions' =
               insert(transactions, tx.tx, stored_deposit(tx, amount))
        /\ ok' = TRUE
        /\ cycle' = NoCycle
        /\ sumWithdrawals' = [sumWithdrawals EXCEPT ![tx.client] = @ + amount]
        /\ clamped' = Clamp(tx.client, Overflows(account.available - amount))
        /\ UNCHANGED <<sumDeposits, chargedBack, reused>>

\* withdrawal, the body of `if account.available >= amount`.
withdrawal_accept(tx, accts, amount) ==
    LET account == accts[tx.client]
    IN  /\ accounts' = [accts EXCEPT
                          ![tx.client] = withdrawal_effect(account, amount)]
        /\ ok' = TRUE
        /\ cycle' = NoCycle
        /\ sumWithdrawals' = [sumWithdrawals EXCEPT ![tx.client] = @ + amount]
        /\ clamped' = Clamp(tx.client, Overflows(account.available - amount))
        /\ UNCHANGED <<transactions, sumDeposits, chargedBack, reused>>

withdrawal(tx) ==
    IF amount_rejected(tx) THEN Return
    ELSE
      LET amount == to_fixed(tx.amount)
          accts == or_default(accounts, tx.client)
      IN  IF is_locked(accts[tx.client]) THEN ReturnAfterEntry(accts)
          ELSE IF withdrawal_sufficient(accts[tx.client], amount)
          THEN withdrawal_accept(tx, accts, amount)
          ELSE ReturnAfterEntry(accts)

\* dispute, after its two guards.
dispute_accept(tx) ==
    LET stored == transactions[tx.tx]
        accts == or_default(accounts, tx.client)
        account == accts[tx.client]
        clamps == \/ Overflows(account.available - stored.amount)
                  \/ Overflows(account.held + stored.amount)
    IN  /\ transactions' = [transactions EXCEPT
                              ![tx.tx].dispute_state = "Disputed"]
        /\ accounts' = [accts EXCEPT
                          ![tx.client] = dispute_effect(account, stored)]
        /\ ok' = TRUE
        /\ cycle' = [phase |-> "disputed", client |-> tx.client,
                     tx |-> tx.tx, available |-> account.available,
                     held |-> account.held, clamps |-> clamps]
        /\ clamped' = Clamp(tx.client, clamps)
        /\ UNCHANGED <<sums, chargedBack, reused>>

\* Mutant: the record's client is not compared with the owner, and the funds
\* are moved on the owner's account.
dispute_charges_owner(tx) ==
    IF tx.tx \notin DOMAIN transactions THEN Return
    ELSE IF transactions[tx.tx].dispute_state # "None" THEN Return
    ELSE dispute_accept([tx EXCEPT !.client = transactions[tx.tx].client])

\* Mutant: a dispute refused because the transaction is under dispute
\* releases it.
dispute_refusal_releases(tx) ==
    IF tx.tx \notin DOMAIN transactions THEN Return
    ELSE IF dispute_rejects(transactions[tx.tx], tx)
    THEN IF /\ transactions[tx.tx].client = tx.client
            /\ transactions[tx.tx].dispute_state = "Disputed"
         THEN /\ transactions' = [transactions EXCEPT
                                    ![tx.tx].dispute_state = "None"]
              /\ ok' = FALSE
              /\ cycle' = NoCycle
              /\ UNCHANGED <<accounts, sums, chargedBack, clamped, reused>>
         ELSE Return
    ELSE dispute_accept(tx)

dispute(tx) ==
    IF tx.tx \notin DOMAIN transactions THEN Return
    ELSE IF dispute_rejects(transactions[tx.tx], tx) THEN Return
    ELSE dispute_accept(tx)

\* resolve, after its two guards.
resolve_accept(tx) ==
    LET stored == transactions[tx.tx]
        accts == or_default(accounts, tx.client)
        account == accts[tx.client]
    IN  /\ transactions' = [transactions EXCEPT
                              ![tx.tx].dispute_state = "None"]
        /\ accounts' = [accts EXCEPT
                          ![tx.client] = resolve_effect(account, stored)]
        /\ ok' = TRUE
        /\ cycle' = IF /\ cycle.phase = "disputed"
                       /\ cycle.client = tx.client
                       /\ cycle.tx = tx.tx
                    THEN [cycle EXCEPT !.phase = "resolved"]
                    ELSE NoCycle
        /\ clamped' = Clamp(tx.client,
                            \/ Overflows(account.held - stored.amount)
                            \/ Overflows(account.available + stored.amount))
        /\ UNCHANGED <<sums, chargedBack, reused>>

\* Mutant: a locked account refuses the resolve.
resolve_refused_when_locked(tx) ==
    IF tx.tx \notin DOMAIN transactions THEN Return
    ELSE IF resolve_rejects(transactions[tx.tx], tx) THEN Return
    ELSE IF tx.client \in DOMAIN accounts /\ accounts[tx.client].locked
    THEN Return
    ELSE resolve_accept(tx)

resolve(tx) ==
    IF tx.tx \notin DOMAIN transactions THEN Return
    ELSE IF resolve_rejects(transactions[tx.tx], tx) THEN Return
    ELSE resolve_accept(tx)

\* chargeback, after its two guards.
chargeback_accept(tx) ==
    LET stored == transactions[tx.tx]
        accts == or_default(accounts, tx.client)
        account == accts[tx.client]
    IN  /\ transactions' = [transactions EXCEPT
                              ![tx.tx].dispute_state = "ChargedBack"]
        /\ accounts' = [accts EXCEPT
                          ![tx.client] = chargeback_effect(account, stored)]
        /\ ok' = TRUE
        /\ cycle' = NoCycle
        /\ chargedBack' = chargedBack \cup {<<tx.client, tx.tx>>}
        /\ clamped' = Clamp(tx.client, Overflows(account.held - stored.amount))
        /\ UNCHANGED <<sums, reused>>

chargeback(tx) ==
    IF tx.tx \notin DOMAIN transactions THEN Return
    ELSE IF chargeback_rejects(transactions[tx.tx], tx) THEN Return
    ELSE chargeback_accept(tx)

\* Engine::process: the match on tx.tx_type.
process(tx) ==
    CASE tx.tx_type = "deposit" -> deposit(tx)
      [] tx.tx_type = "withdrawal" -> withdrawal(tx)
      [] tx.tx_type = "dispute" -> dispute(tx)
      [] tx.tx_type = "resolve" -> resolve(tx)
      [] tx.tx_type = "chargeback" -> chargeback(tx)

\* Account::total: a plain `+`.
total(account) == account.available + account.held

Transfer(tx) == tx.tx_type \in {"deposit", "withdrawal"}

\* One iteration of run()'s loop: the reader delivers a record and the
\* engine processes it.  The stream holds at most MaxTransfers deposit and
\* withdrawal records, and any number of the other three kinds.
Feed(tx) ==
    /\ pc = "reading"
    /\ Transfer(tx) => fed < MaxTransfers
    /\ process(tx)
    /\ fed' = IF Transfer(tx) THEN fed + 1 ELSE fed
    /\ scenario' = IF /\ scenario >= 0
                      /\ scenario < Len(Scenario)
                      /\ tx = Scenario[scenario + 1]
                   THEN scenario + 1 ELSE -1
    /\ UNCHANGED <<pc, out, panicked>>

FeedDeposit == \E tx \in Records : tx.tx_type = "deposit" /\ Feed(tx)
FeedWithdrawal == \E tx \in Records : tx.tx_type = "withdrawal" /\ Feed(tx)
FeedDispute == \E tx \in Records : tx.tx_type = "dispute" /\ Feed(tx)
FeedResolve == \E tx \in Records : tx.tx_type = "resolve" /\ Feed(tx)
FeedChargeback == \E tx \in Records : tx.tx_type = "chargeback" /\ Feed(tx)

\* The view output() builds for one account.
View(client, t) ==
    [client |-> client, available |-> accounts[client].available,
     held |-> accounts[client].held, total |-> t,
     locked |-> accounts[client].locked]

history == <<ok, sumDeposits, sumWithdrawals, chargedBack, clamped, reused, cycle,
             scenario>>

\* Engine::output at the end of the stream.  account.total() is a plain
\* i64 addition: when the sum leaves the range the build decides, the
\* wrapped value (overflow checks off) or a panic (overflow checks on).
OutputWrapping ==
    /\ pc = "reading"
    /\ pc' = "done"
    /\ out' = { View(c, wrapping_add(accounts[c].available, accounts[c].held)) :
                  c \in DOMAIN accounts }
    /\ UNCHANGED <<engine, history, panicked, fed>>

OutputChecked ==
    /\ pc = "reading"
    /\ pc' = "done"
    /\ IF \E c \in DOMAIN accounts : Overflows(total(accounts[c]))
       THEN panicked' = TRUE /\ out' = {}
       ELSE /\ out' = { View(c, total(accounts[c])) : c \in DOMAIN accounts }
            /\ UNCHANGED panicked
    /\ UNCHANGED <<engine, history, fed>>

\* The engine under process() calls.
Next ==
    \/ FeedDeposit
    \/ FeedWithdrawal
    \/ FeedDispute
    \/ FeedResolve
    \/ FeedChargeback

Spec == Init /\ [][Next]_vars

\* A whole run of main.rs: the records, then output().
NextRun ==
    \/ Next
    \/ OutputWrapping
    \/ OutputChecked

Run == Init /\ [][NextRun]_vars

\* A stream in which one client deposits 10.0 or the largest amount, up to
\* MaxLargeDeposits times over MaxLargeTx transaction ids, and every client
\* sends dispute, resolve and chargeback records: long enough for held to
\* reach both ends of the integer range.
LargeRecords ==
    [tx_type : {"deposit"}, client : {1}, tx : 1..MaxLargeTx,
     amount : {Dec(100, 1), Dec(I64_MAX, 4)}]
    \cup
    [tx_type : {"dispute", "resolve", "chargeback"}, client : Clients,
     tx : 1..MaxLargeTx, amount : {NoAmount}]

LargeFeed(tx) ==
    /\ pc = "reading"
    /\ Transfer(tx) => fed < MaxLargeDeposits
    /\ process(tx)
    /\ fed' = IF Transfer(tx) THEN fed + 1 ELSE fed
    /\ scenario' = -1
    /\ UNCHANGED <<pc, out, panicked>>

LargeDeposit ==
    \E tx \in LargeRecords : tx.tx_type = "deposit" /\ LargeFeed(tx)
LargeDispute ==
    \E tx \in LargeRecords : tx.tx_type = "dispute" /\ LargeFeed(tx)
LargeResolve ==
    \E tx \in LargeRecords : tx.tx_type = "resolve" /\ LargeFeed(tx)
LargeChargeback ==
    \E tx \in LargeRecords : tx.tx_type = "chargeback" /\ LargeFeed(tx)

NextLarge ==
    \/ LargeDeposit
    \/ LargeDispute
    \/ LargeResolve
    \/ LargeChargeback

Large == Init /\ [][NextLarge]_vars

\* A stream in which one client deposits amounts at the edge of the four
\* fractional digits and of the integer range: 1.2345, 0.0001, 1.23456,
\* 0.00019, the largest amount, and ten times the largest amount; every
\* client sends dispute, resolve and chargeback records.
PreciseAmounts ==
    { Dec(12345, 4), Dec(1, 4), Dec(123456, 5), Dec(19, 5), Dec(I64_MAX, 4),
      Dec(I64_MAX, 3) }

PreciseRecords ==
    [tx_type : {"deposit"}, client : {1}, tx : TxIds,
     amount : PreciseAmounts]

PreciseDeposit == \E tx \in PreciseRecords : Feed(tx)

NextPrecise ==
    \/ PreciseDeposit
    \/ FeedDispute
    \/ FeedResolve
    \/ FeedChargeback

Precise == Init /\ [][NextPrecise]_vars

(***************************************************************************)
(* The claims.                                                             *)
(***************************************************************************)
HasChargeback(c) == \E p \in chargedBack : p[1] = c

Lifecycle(tx_type, client, txid) ==
    [tx_type |-> tx_type, client |-> client, tx |-> txid, amount |-> NoAmount]

\* C1 as stated: for every account on which no chargeback has been accepted,
\* available + held equals the sum of the client's accepted deposits minus
\* the sum of its accepted withdrawals.
C1_ConservationAsStated ==
    \A c \in DOMAIN accounts :
        ~HasChargeback(c) =>
            accounts[c].available + accounts[c].held
                = sumDeposits[c] - sumWithdrawals[c]

\* C1 amended: for every account on which no chargeback has been accepted and
\* none of whose balance updates was clamped by saturation, the exact sum
\* available + held equals the sum of the client's accepted deposits minus
\* the sum of its accepted withdrawals, whatever disputes and resolves were
\* applied.
C1_Conservation ==
    \A c \in DOMAIN accounts :
        (~HasChargeback(c) /\ c \notin clamped) =>
            accounts[c].available + accounts[c].held
                = sumDeposits[c] - sumWithdrawals[c]

\* An unclamped account without chargeback that has seen a deposit and a
\* withdrawal and whose deposit is under dispute, available below zero.
C1_Witness ==
    \E c \in DOMAIN accounts :
        /\ ~HasChargeback(c) /\ c \notin clamped
        /\ sumDeposits[c] > 0 /\ sumWithdrawals[c] > 0
        /\ accounts[c].held > 0 /\ accounts[c].available < 0
        /\ \E t \in DOMAIN transactions :
               /\ transactions[t].client = c
               /\ transactions[t].dispute_state = "Disputed"

\* C2 as stated: a dispute immediately followed by the resolve of the same
\* client and tx leaves available and held as they were before the dispute,
\* and the transaction back at None.
C2_ReversibleAsStated ==
    cycle.phase = "resolved" =>
        /\ accounts[cycle.client].available = cycle.available
        /\ accounts[cycle.client].held = cycle.held
        /\ transactions[cycle.tx].dispute_state = "None"

\* C2 amended: the same, provided neither of the dispute's two updates
\* (available - amount, held + amount) was clamped by saturation.
C2_Reversible ==
    (cycle.phase = "resolved" /\ ~cycle.clamps) =>
        /\ accounts[cycle.client].available = cycle.available
        /\ accounts[cycle.client].held = cycle.held
        /\ transactions[cycle.tx].dispute_state = "None"

\* A dispute of a positive amount and its resolve have just run, unclamped.
C2_Witness ==
    /\ cycle.phase = "resolved" /\ ~cycle.clamps
    /\ transactions[cycle.tx].amount > 0
    /\ cycle.available > 0

\* C3: once chargeback(c,t) has been accepted, every later dispute, resolve
\* or chargeback of (c,t) is rejected and changes no account and no stored
\* transaction.
C3_ChargebackTerminal ==
    [][\A p \in chargedBack :
         \A tx_type \in {"dispute", "resolve", "chargeback"} :
             Feed(Lifecycle(tx_type, p[1], p[2])) =>
                 (~ok' /\ accounts' = accounts /\ transactions' = transactions)
      ]_vars

\* A charged-back (c,t) whose tx id has since been taken by a deposit of
\* another client, itself now under dispute.
C3_Witness ==
    \E p \in chargedBack :
        /\ p[2] \in DOMAIN transactions
        /\ transactions[p[2]].client # p[1]
        /\ transactions[p[2]].dispute_state = "Disputed"

\* C4: in a state where client c's account is locked, every deposit or
\* withdrawal record for c leaves c's available, held and locked unchanged
\* and adds or replaces no stored transaction.
C4_LockBlocksTransfers ==
    [][\A tx \in Records :
         (/\ Transfer(tx)
          /\ tx.client \in DOMAIN accounts
          /\ accounts[tx.client].locked
          /\ Feed(tx)) =>
             (/\ ~ok'
              /\ accounts'[tx.client] = accounts[tx.client]
              /\ transactions' = transactions)
      ]_vars

\* A locked account to which the reader can deliver a deposit of 10.0 and a
\* withdrawal that the balance covers, each of which is then rejected.
C4_Witness ==
    \E c \in DOMAIN accounts :
        /\ accounts[c].locked
        /\ accounts[c].available >= to_fixed(Dec(5, 5))
        /\ ENABLED (/\ Feed([tx_type |-> "deposit", client |-> c, tx |-> 1,
                             amount |-> Dec(100, 1)])
                    /\ ~ok')
        /\ ENABLED (/\ Feed([tx_type |-> "withdrawal", client |-> c, tx |-> 1,
                             amount |-> Dec(5, 5)])
                    /\ ~ok')


\* What the dispute table of the design gives for a dispute, resolve or
\* chargeback record, stated without reference to the handlers.
Clip(x) == IF x > I64_MAX THEN I64_MAX ELSE IF x < I64_MIN THEN I64_MIN ELSE x

TableFrom(tx_type) == IF tx_type = "dispute" THEN "None" ELSE "Disputed"

TableTo(tx_type) ==
    CASE tx_type = "dispute" -> "Disputed"
      [] tx_type = "resolve" -> "None"
      [] tx_type = "chargeback" -> "ChargedBack"

TableGuard(tx) ==
    /\ tx.tx \in DOMAIN transactions
    /\ transactions[tx.tx].client = tx.client
    /\ transactions[tx.tx].dispute_state = TableFrom(tx.tx_type)

TableAccount(tx_type, a, m) ==
    CASE tx_type = "dispute" ->
           [available |-> Clip(a.available - m), held |-> Clip(a.held + m),
            locked |-> a.locked]
      [] tx_type = "resolve" ->
           [available |-> Clip(a.available + m), held |-> Clip(a.held - m),
            locked |-> a.locked]
      [] tx_type = "chargeback" ->
           [available |-> a.available, held |-> Clip(a.held - m),
            locked |-> TRUE]

TableStep(tx) ==
    IF TableGuard(tx)
    THEN /\ ok'
         /\ tx.client \in DOMAIN accounts
         /\ accounts' =
                [accounts EXCEPT
                   ![tx.client] = TableAccount(tx.tx_type, accounts[tx.client],
                                               transactions[tx.tx].amount)]
         /\ transactions' =
                [transactions EXCEPT
                   ![tx.tx].dispute_state = TableTo(tx.tx_type)]
    ELSE ~ok' /\ accounts' = accounts /\ transactions' = transactions

\* C5: a dispute, resolve or chargeback record for a client whose account is
\* locked is accepted exactly when the table's guard holds and has exactly
\* the table's effect, as for an unlocked account; and after the six records
\* of Scenario account 1 has available 20.0000, held 0, locked.
C5_LockKeepsLifecycle ==
    /\ [](scenario = Len(Scenario) =>
             /\ 1 \in DOMAIN accounts
             /\ accounts[1] =
                    [available |-> 20 * SCALE, held |-> 0, locked |-> TRUE])
    /\ [][\A tx \in Records :
            (/\ ~Transfer(tx)
             /\ tx.client \in DOMAIN accounts
             /\ accounts[tx.client].locked
             /\ Feed(tx)) => TableStep(tx)
         ]_vars

\* The six records of Scenario have been processed: the last, a resolve on
\* the locked account, was accepted.
C5_Witness == scenario = Len(Scenario) /\ ok /\ accounts[1].locked

ValidAmount(tx) == tx.amount.some /\ tx.amount.m > 0

\* C6 as stated: a rejected record leaves the account map and the
\* stored-transaction map as they were.
C6_RejectionChangesNothingAsStated ==
    [][~ok' =>
         \A tx \in Records :
             Feed(tx) => (accounts' = accounts /\ transactions' = transactions)
      ]_vars

\* C6 amended: a rejected record leaves the stored-transaction map and every
\* existing account as they were, and the set of accounts too, except that a
\* withdrawal with a present positive amount naming a client with no account,
\* rejected for insufficient funds, leaves a new account for that client
\* with available 0, held 0, unlocked.
C6_RejectionChangesNothing ==
    [][~ok' =>
         \A tx \in Records :
             Feed(tx) =>
                 /\ transactions' = transactions
                 /\ \/ accounts' = accounts
                    \/ /\ tx.tx_type = "withdrawal"
                       /\ ValidAmount(tx)
                       /\ tx.client \notin DOMAIN accounts
                       /\ accounts' = (tx.client :> DefaultAccount) @@ accounts
      ]_vars

\* A state from which a record of each rejected kind can be delivered and is
\* rejected: a deposit on a locked account, a withdrawal by a client that has
\* no account yet (which creates the account), and a dispute by a client that
\* does not own the transaction.
C6_Witness ==
    \E c \in DOMAIN accounts, d \in Clients, t \in DOMAIN transactions :
        /\ d # c
        /\ transactions[t].client = c
        /\ accounts[c].locked
        /\ d \notin DOMAIN accounts
        /\ ENABLED (/\ Feed([tx_type |-> "deposit", client |-> c, tx |-> t,
                             amount |-> Dec(100, 1)])
                    /\ ~ok')
        /\ ENABLED (/\ Feed([tx_type |-> "withdrawal", client |-> d, tx |-> t,
                             amount |-> Dec(100, 1)])
                    /\ ~ok' /\ accounts' # accounts)
        /\ ENABLED (Feed(Lifecycle("dispute", d, t)) /\ ~ok')

\* C7 as stated: no computation wraps or panics; the total of every view of
\* the snapshot is available + held.
C7_NoOverflowAsStated ==
    /\ ~panicked
    /\ \A v \in out :
           /\ v.total = v.available + v.held
           /\ ~Overflows(v.total)

\* What one step may do to a stored transaction's dispute state.
LifecycleMove(tx_type, from, to) ==
    \/ tx_type = "dispute" /\ from = "None" /\ to = "Disputed"
    \/ tx_type = "resolve" /\ from = "Disputed" /\ to = "None"
    \/ tx_type = "chargeback" /\ from = "Disputed" /\ to = "ChargedBack"

\* C8 as stated: across a step every stored transaction stays stored with its
\* client and amount, and its dispute state stays or makes one of the three
\* moves of the state machine, by an accepted record of the matching kind.
C8_StateMachineAsStated ==
    [][\A t \in DOMAIN transactions :
         /\ t \in DOMAIN transactions'
         /\ transactions'[t].client = transactions[t].client
         /\ transactions'[t].amount = transactions[t].amount
         /\ transactions'[t].dispute_state # transactions[t].dispute_state =>
                \A tx \in Records :
                    Feed(tx) =>
                        /\ ok'
                        /\ tx.tx = t
                        /\ LifecycleMove(tx.tx_type,
                                         transactions[t].dispute_state,
                                         transactions'[t].dispute_state)
      ]_vars

\* C8 amended: across a step every stored transaction stays stored; either
\* the step is an accepted deposit carrying its tx id, which replaces it by
\* (depositing client, deposited amount, None) whatever its state was, or its
\* client and amount are unchanged and its dispute state stays or makes one
\* of the three moves, by an accepted record of the matching kind for the
\* same tx id.
C8_StateMachine ==
    [][\A t \in DOMAIN transactions :
         /\ t \in DOMAIN transactions'
         /\ transactions'[t] # transactions[t] =>
                \A tx \in Records :
                    Feed(tx) =>
                        /\ ok'
                        /\ tx.tx = t
                        /\ IF tx.tx_type = "deposit"
                           THEN transactions'[t] =
                                    [client |-> tx.client,
                                     amount |-> to_fixed(tx.amount),
                                     dispute_state |-> "None"]
                           ELSE /\ transactions'[t].client = transactions[t].client
                                /\ transactions'[t].amount = transactions[t].amount
                                /\ LifecycleMove(tx.tx_type,
                                                 transactions[t].dispute_state,
                                                 transactions'[t].dispute_state)
      ]_vars

\* A charged-back transaction and a disputed one, to which a dispute, a
\* resolve and a chargeback can each still be delivered.
C8_Witness ==
    \E t, u \in DOMAIN transactions :
        /\ transactions[t].dispute_state = "ChargedBack"
        /\ transactions[u].dispute_state = "Disputed"
        /\ ENABLED (Feed(Lifecycle("dispute", transactions[t].client, t)) /\ ~ok')
        /\ ENABLED (Feed(Lifecycle("resolve", transactions[u].client, u)) /\ ok')
        /\ ENABLED (Feed(Lifecycle("chargeback", transactions[u].client, u)) /\ ok')

\* C9 as stated: after a record of any kind naming a client without account,
\* that client has an account; no account is ever removed.
C9_LazyCreationAsStated ==
    [][/\ DOMAIN accounts \subseteq DOMAIN accounts'
       /\ \A tx \in Records :
            (tx.client \notin DOMAIN accounts /\ Feed(tx)) =>
                tx.client \in DOMAIN accounts'
      ]_vars

\* C9 amended: a record naming a client without account creates that
\* account exactly when it is a deposit or withdrawal with a present,
\* strictly positive amount; the account is created with available 0, held
\* 0, unlocked before the record's effect, so afterwards it holds the
\* deposited amount (or 0 after a withdrawal) with held 0, unlocked; no other
\* account is created and no account is ever removed.
C9_LazyCreation ==
    [][/\ DOMAIN accounts \subseteq DOMAIN accounts'
       /\ \A tx \in Records :
            (tx.client \notin DOMAIN accounts /\ Feed(tx)) =>
                /\ DOMAIN accounts' \subseteq DOMAIN accounts \cup {tx.client}
                /\ tx.client \in DOMAIN accounts' <=>
                       (Transfer(tx) /\ ValidAmount(tx))
                /\ tx.client \in DOMAIN accounts' =>
                       accounts'[tx.client] =
                           [available |->
                                IF tx.tx_type = "deposit"
                                THEN Clip(to_fixed(tx.amount)) ELSE 0,
                            held |-> 0, locked |-> FALSE]
      ]_vars

\* An account that exists though its client has no accepted deposit of a
\* positive amount, beside a stored transaction of another client that the
\* first client's dispute cannot touch.
C9_Witness ==
    \E c \in DOMAIN accounts, d \in Clients :
        /\ d # c
        /\ accounts[c] = DefaultAccount
        /\ sumDeposits[c] = 0
        /\ d \notin DOMAIN accounts
        /\ ENABLED (/\ Feed([tx_type |-> "withdrawal", client |-> d, tx |-> 1,
                             amount |-> Dec(100, 1)])
                    /\ ~ok' /\ d \in DOMAIN accounts')
        /\ ENABLED (/\ Feed([tx_type |-> "deposit", client |-> d, tx |-> 1,
                             amount |-> NoAmount])
                    /\ ~ok' /\ d \notin DOMAIN accounts')

\* C10 as stated: a dispute is accepted exactly when the transaction is
\* stored, owned by the record's client and in state None; it then sets the
\* state to Disputed, subtracts the stored amount from available and adds it
\* to held (saturating), leaves locked and leaves available + held unchanged.
C10_DisputeAsStated ==
    [][\A tx \in Records :
         (tx.tx_type = "dispute" /\ Feed(tx)) =>
             /\ TableStep(tx)
             /\ ok' => accounts'[tx.client].available + accounts'[tx.client].held
                         = accounts[tx.client].available + accounts[tx.client].held
      ]_vars

\* C10 amended: the same, with available + held unchanged provided neither
\* update is clamped (available - amount and held + amount both within the
\* integer range).
C10_Dispute ==
    [][\A tx \in Records :
         (tx.tx_type = "dispute" /\ Feed(tx)) =>
             /\ TableStep(tx)
             /\ (/\ ok'
                 /\ ~Overflows(accounts[tx.client].available
                                  - transactions[tx.tx].amount)
                 /\ ~Overflows(accounts[tx.client].held
                                  + transactions[tx.tx].amount)) =>
                    accounts'[tx.client].available + accounts'[tx.client].held
                        = accounts[tx.client].available + accounts[tx.client].held
      ]_vars

\* A transaction that has just been through a dispute and its resolve, whose
\* funds have been withdrawn: a second dispute is accepted and takes
\* available below zero.
C10_Witness ==
    /\ cycle.phase = "resolved"
    /\ ENABLED (/\ Feed(Lifecycle("dispute", cycle.client, cycle.tx))
                /\ ok'
                /\ accounts'[cycle.client].available < 0)

\* C11 as stated: a chargeback is accepted exactly when the transaction is
\* stored, owned by the record's client and Disputed; it then sets the state
\* to ChargedBack, decreases held by the stored amount, locks the account and
\* leaves available, so that available + held drops by the stored amount; a
\* rejected chargeback changes nothing.
C11_ChargebackAsStated ==
    [][\A tx \in LargeRecords :
         (tx.tx_type = "chargeback" /\ LargeFeed(tx)) =>
             /\ ok' <=> TableGuard(tx)
             /\ ok' =>
                    /\ transactions' =
                           [transactions EXCEPT
                              ![tx.tx].dispute_state = "ChargedBack"]
                    /\ accounts'[tx.client].held =
                           accounts[tx.client].held - transactions[tx.tx].amount
                    /\ accounts'[tx.client].locked
                    /\ accounts'[tx.client].available =
                           accounts[tx.client].available
                    /\ accounts'[tx.client].available + accounts'[tx.client].held =
                           accounts[tx.client].available + accounts[tx.client].held
                               - transactions[tx.tx].amount
             /\ ~ok' => (accounts' = accounts /\ transactions' = transactions)
      ]_vars

\* C11 amended: the same guard and effect, with held decreased by the stored
\* amount saturating at the lower end of the integer range; held and
\* available + held drop by exactly the stored amount provided held - amount
\* is within the range.  After deposit(1,1,10.0), dispute(1,1) the
\* chargeback(1,1) leaves available 0, held 0, locked.
C11_Chargeback ==
    [][\A tx \in LargeRecords :
         (tx.tx_type = "chargeback" /\ LargeFeed(tx)) =>
             /\ TableStep(tx)
             /\ (/\ ok'
                 /\ ~Overflows(accounts[tx.client].held
                                  - transactions[tx.tx].amount)) =>
                    /\ accounts'[tx.client].held =
                           accounts[tx.client].held - transactions[tx.tx].amount
                    /\ accounts'[tx.client].available + accounts'[tx.client].held =
                           accounts[tx.client].available + accounts[tx.client].held
                               - transactions[tx.tx].amount
             /\ (/\ tx = Lifecycle("chargeback", 1, 1)
                 /\ accounts = (1 :> [available |-> 0, held |-> 10 * SCALE,
                                      locked |-> FALSE])
                 /\ transactions =
                        (1 :> [client |-> 1, amount |-> 10 * SCALE,
                               dispute_state |-> "Disputed"])) =>
                    accounts' = (1 :> [available |-> 0, held |-> 0,
                                       locked |-> TRUE])
      ]_vars

\* An account has been charged back and locked, and holds a second
\* transaction under dispute and a third that is not: the owner's chargeback
\* of the second is accepted, another client's chargeback of it and the
\* owner's chargeback of the third are rejected.
C11_Witness ==
    \E c \in DOMAIN accounts, d \in Clients, t, u \in DOMAIN transactions :
        /\ d # c
        /\ HasChargeback(c) /\ accounts[c].locked
        /\ transactions[t].client = c
        /\ transactions[t].dispute_state = "Disputed"
        /\ transactions[u].client = c
        /\ transactions[u].dispute_state = "None"
        /\ ENABLED (LargeFeed(Lifecycle("chargeback", c, t)) /\ ok')
        /\ ENABLED (LargeFeed(Lifecycle("chargeback", d, t)) /\ ~ok')
        /\ ENABLED (LargeFeed(Lifecycle("chargeback", c, u)) /\ ~ok')

\* The account a record's handler works on: the client's account, or the
\* default one when the client has none.
AccountOf(client) ==
    IF client \in DOMAIN accounts THEN accounts[client] ELSE DefaultAccount

\* C12: a withdrawal with a present positive amount on an unlocked account is
\* accepted exactly when available >= amount (the fixed-point amount;
\* equality is accepted); it then decreases available by exactly the amount
\* and leaves held and locked; when available < amount it leaves available,
\* held and locked.
C12_Withdrawal ==
    [][\A tx \in Records :
         (/\ tx.tx_type = "withdrawal"
          /\ ValidAmount(tx)
          /\ ~AccountOf(tx.client).locked
          /\ Feed(tx)) =>
             LET account == AccountOf(tx.client)
                 amount == to_fixed(tx.amount)
             IN  /\ ok' <=> account.available >= amount
                 /\ tx.client \in DOMAIN accounts'
                 /\ accounts'[tx.client] =
                        IF account.available >= amount
                        THEN [account EXCEPT !.available = @ - amount]
                        ELSE account
      ]_vars

\* An unlocked account with available 10.0, to which the
\* reader can deliver a withdrawal of 10.0, accepted and leaving available 0,
\* and a withdrawal of 20.0, rejected.
C12_Witness ==
    \E c \in DOMAIN accounts :
        /\ ~accounts[c].locked
        /\ accounts[c].available = 10 * SCALE
        /\ ENABLED (/\ Feed([tx_type |-> "withdrawal", client |-> c, tx |-> 1,
                             amount |-> Dec(100, 1)])
                    /\ ok' /\ accounts'[c].available = 0)
        /\ ENABLED (/\ Feed([tx_type |-> "withdrawal", client |-> c, tx |-> 1,
                             amount |-> Dec(200, 1)])
                    /\ ~ok')

\* The input value multiplied by 10,000 and truncated toward zero.
TimesScaleTruncated(d) ==
    IF 10^d.e <= SCALE THEN d.m * (SCALE \div 10^d.e)
    ELSE TruncDiv(d.m, 10^d.e \div SCALE)

DepositStep(tx, amount) ==
    LET account == AccountOf(tx.client)
    IN  /\ ok'
        /\ tx.client \in DOMAIN accounts'
        /\ accounts'[tx.client] =
               [account EXCEPT !.available = Clip(@ + amount)]
        /\ tx.tx \in DOMAIN transactions'
        /\ transactions'[tx.tx] =
               [client |-> tx.client, amount |-> amount,
                dispute_state |-> "None"]

\* C13 as stated: a deposit with a present amount above zero on an unlocked
\* account is accepted; available increases, saturating, by the value times
\* 10,000 truncated toward zero, held and locked are unchanged, and the
\* stored transaction (client, truncated amount, None) is recorded.
C13_DepositAsStated ==
    [][\A tx \in PreciseRecords :
         (ValidAmount(tx) /\ ~AccountOf(tx.client).locked /\ Feed(tx)) =>
             DepositStep(tx, TimesScaleTruncated(tx.amount))
      ]_vars

\* C13 amended: the same, where the amount added and stored is the value
\* times 10,000 truncated toward zero when that fits the integer range, and
\* 0 when it does not; the truncated amount never exceeds the value; and
\* deposit(1,1,1.2345) then deposit(1,2,0.0001) on a new engine gives
\* available 1.2346.
C13_Deposit ==
    [][\A tx \in PreciseRecords :
         (ValidAmount(tx) /\ ~AccountOf(tx.client).locked /\ Feed(tx)) =>
             LET scaled == TimesScaleTruncated(tx.amount)
                 first == [available |-> 12345, held |-> 0, locked |-> FALSE]
                 stored == [client |-> 1, amount |-> 12345,
                            dispute_state |-> "None"]
             IN  /\ DepositStep(tx, IF Overflows(scaled) THEN 0 ELSE scaled)
                 /\ 10^tx.amount.e > SCALE =>
                        /\ scaled * (10^tx.amount.e \div SCALE) <= tx.amount.m
                        /\ (scaled + 1) * (10^tx.amount.e \div SCALE)
                               > tx.amount.m
                 /\ (/\ tx = [tx_type |-> "deposit", client |-> 1, tx |-> 1,
                               amount |-> Dec(12345, 4)]
                     /\ accounts = <<>> /\ transactions = <<>>) =>
                        (accounts' = (1 :> first) /\ transactions' = (1 :> stored))
                 /\ (/\ tx = [tx_type |-> "deposit", client |-> 1, tx |-> 2,
                               amount |-> Dec(1, 4)]
                     /\ accounts = (1 :> first)
                     /\ transactions = (1 :> stored)) =>
                        accounts'[1] = [first EXCEPT !.available = 12346]
      ]_vars

\* deposit(1,1,1.2345) and deposit(1,2,0.0001) have been accepted.
C13_Witness ==
    /\ DOMAIN transactions = {1, 2}
    /\ transactions[1] = [client |-> 1, amount |-> 12345, dispute_state |-> "None"]
    /\ transactions[2] = [client |-> 1, amount |-> 1, dispute_state |-> "None"]
    /\ accounts = (1 :> [available |-> 12346, held |-> 0, locked |-> FALSE])
    /\ ok

\* C14: an accepted deposit whose tx id already has a stored transaction,
\* whoever owns it and whatever its dispute state, replaces that record by
\* (depositing client, new amount, None), leaves every other stored
\* transaction, and adjusts no account's held or locked.
C14_LastWriteWins ==
    [][\A tx \in Records :
         (/\ tx.tx_type = "deposit"
          /\ tx.tx \in DOMAIN transactions
          /\ Feed(tx)
          /\ ok') =>
             /\ transactions' =
                    [transactions EXCEPT
                       ![tx.tx] = [client |-> tx.client,
                                   amount |-> to_fixed(tx.amount),
                                   dispute_state |-> "None"]]
             /\ \A c \in DOMAIN accounts :
                    /\ accounts'[c].held = accounts[c].held
                    /\ accounts'[c].locked = accounts[c].locked
             /\ \A c \in DOMAIN accounts' \ DOMAIN accounts :
                    accounts'[c].held = 0 /\ ~accounts'[c].locked
      ]_vars

\* A transaction under dispute, its amount held on its owner's account, whose
\* tx id the reader can deliver again in a deposit of the owner and in a
\* deposit of another client, both accepted.
C14_Witness ==
    \E t \in DOMAIN transactions, d \in Clients :
        LET c == transactions[t].client
        IN  /\ d # c
            /\ transactions[t].dispute_state = "Disputed"
            /\ accounts[c].held = transactions[t].amount
            /\ transactions[t].amount > 0
            /\ ENABLED (/\ Feed([tx_type |-> "deposit", client |-> c, tx |-> t,
                                 amount |-> Dec(200, 1)])
                        /\ ok' /\ transactions'[t].dispute_state = "None")
            /\ ENABLED (/\ Feed([tx_type |-> "deposit", client |-> d, tx |-> t,
                                 amount |-> Dec(200, 1)])
                        /\ ok' /\ transactions'[t].client = d)

\* C15 as stated: output() returns exactly one view per client of the account
\* map, each carrying the account's available, held and locked and the total
\* available + held.
C15_SnapshotAsStated ==
    pc = "done" =>
        /\ ~panicked
        /\ { v.client : v \in out } = DOMAIN accounts
        /\ Cardinality(out) = Cardinality(DOMAIN accounts)
        /\ \A v \in out :
               /\ v.available = accounts[v.client].available
               /\ v.held = accounts[v.client].held
               /\ v.locked = accounts[v.client].locked
               /\ v.total = accounts[v.client].available
                                + accounts[v.client].held

\* C16: an account's locked flag becomes true only in a step that accepts a
\* chargeback of a transaction owned by that client, and a locked account
\* stays in the map, locked, across every step.
C16_LockPermanent ==
    [][/\ \A c \in DOMAIN accounts :
            accounts[c].locked =>
                (c \in DOMAIN accounts' /\ accounts'[c].locked)
       /\ \A c \in DOMAIN accounts' :
            (accounts'[c].locked /\ ~AccountOf(c).locked) =>
                \A tx \in Records :
                    Feed(tx) =>
                        /\ tx.tx_type = "chargeback"
                        /\ tx.client = c
                        /\ ok'
                        /\ tx.tx \in DOMAIN transactions
                        /\ transactions[tx.tx].client = c
      ]_vars

\* A locked account with a transaction under dispute, and another client
\* that is not locked: the reader can deliver a resolve and a chargeback of
\* the first client, both accepted, and a chargeback of the second, rejected.
C16_Witness ==
    \E c \in DOMAIN accounts, d \in Clients, t \in DOMAIN transactions :
        /\ d # c
        /\ accounts[c].locked /\ ~AccountOf(d).locked
        /\ transactions[t].client = c
        /\ ENABLED (Feed(Lifecycle("resolve", c, t)) /\ ok')
        /\ ENABLED (Feed(Lifecycle("chargeback", c, t)) /\ ok')
        /\ ENABLED (Feed(Lifecycle("chargeback", d, t)) /\ ~ok')

\* In the current state the record is rejected and leaves the engine as it
\* is: process() has no other outcome.
RejectedUnchanged(tx) ==
    ~ENABLED (/\ process(tx)
              /\ (ok' \/ accounts' # accounts \/ transactions' # transactions))

\* C17: the state after a rejected record is one in which the same record is
\* rejected again and leaves the engine unchanged; the repeat therefore ends
\* in the same engine state, and so does every further repeat.
C17_RejectionIdempotent ==
    [][\A tx \in Records : (Feed(tx) /\ ~ok') => RejectedUnchanged(tx)']_vars
\* The last record was rejected; a transaction is under dispute and a second
\* dispute of it by its owner moves no funds; and an account exists that a
\* refused withdrawal created, on which the same withdrawal is refused again
\* and changes nothing.
C17_Witness ==
    /\ ~ok
    /\ \E t \in DOMAIN transactions :
           /\ transactions[t].dispute_state = "Disputed"
           /\ accounts[transactions[t].client].held > 0
           /\ RejectedUnchanged(Lifecycle("dispute", transactions[t].client, t))
    /\ \E c \in DOMAIN accounts :
           /\ accounts[c] = DefaultAccount
           /\ sumDeposits[c] = 0
           /\ RejectedUnchanged([tx_type |-> "withdrawal", client |-> c,
                                 tx |-> 1, amount |-> Dec(100, 1)])
\* C18: no withdrawal record, accepted or rejected, adds, removes or alters a
\* stored transaction; and a dispute, resolve or chargeback whose tx id has
\* no stored transaction, as is every id that only withdrawals have used, is
\* rejected and leaves every account and the stored transactions unchanged.
C18_WithdrawalsNotStored ==
    [][\A tx \in Records :
         Feed(tx) =>
             /\ tx.tx_type = "withdrawal" => transactions' = transactions
             /\ (~Transfer(tx) /\ tx.tx \notin DOMAIN transactions) =>
                    (/\ ~ok'
                     /\ accounts' = accounts
                     /\ transactions' = transactions)
      ]_vars

\* A client has made an accepted withdrawal of a positive amount and a tx id
\* has no stored transaction: the client's dispute, resolve and chargeback
\* of that id can be delivered and are rejected.
C18_Witness ==
    \E c \in DOMAIN accounts, t \in TxIds :
        /\ sumWithdrawals[c] > 0
        /\ t \notin DOMAIN transactions
        /\ \A tx_type \in {"dispute", "resolve", "chargeback"} :
               ENABLED (Feed(Lifecycle(tx_type, c, t)) /\ ~ok')
\* C19: a record naming client c, of any type, accepted or rejected, leaves
\* every other account in the map with its available, held and locked, and
\* creates no account for another client.
C19_AccountIsolation ==
    [][\A tx \in Records :
         Feed(tx) =>
             /\ \A d \in DOMAIN accounts \ {tx.client} :
                    d \in DOMAIN accounts' /\ accounts'[d] = accounts[d]
             /\ DOMAIN accounts' \subseteq DOMAIN accounts \cup {tx.client}
      ]_vars

\* A funded account whose owner has a stored transaction not under dispute,
\* and another client: the reader can deliver the other client's dispute of
\* that transaction, which is rejected, and the other client's deposit under
\* the same tx id, which is accepted.
C19_Witness ==
    \E c \in DOMAIN accounts, d \in Clients, t \in DOMAIN transactions :
        /\ d # c
        /\ accounts[c].available > 0
        /\ transactions[t].client = c
        /\ transactions[t].dispute_state = "None"
        /\ ENABLED (Feed(Lifecycle("dispute", d, t)) /\ ~ok')
        /\ ENABLED (/\ Feed([tx_type |-> "deposit", client |-> d, tx |-> t,
                             amount |-> Dec(100, 1)])
                    /\ ok')
\* The sum of the amounts of the stored transactions among ts.
RECURSIVE SumAmounts(_)
SumAmounts(ts) ==
    IF ts = {} THEN 0
    ELSE LET t == CHOOSE u \in ts : TRUE
         IN  transactions[t].amount + SumAmounts(ts \ {t})

\* The stored transactions owned by client c that are under dispute.
OpenDisputes(c) ==
    { t \in DOMAIN transactions :
        /\ transactions[t].client = c
        /\ transactions[t].dispute_state = "Disputed" }

\* C20: as long as every accepted deposit carried a tx id with no stored
\* transaction and no balance update was clamped, each client's held (0 for
\* a client without account) is the sum of the amounts of its stored
\* transactions under dispute, and is not negative.
C20_HeldMatchesDisputes ==
    (~reused /\ clamped = {}) =>
        \A c \in Clients :
            /\ AccountOf(c).held = SumAmounts(OpenDisputes(c))
            /\ AccountOf(c).held >= 0

\* Two deposits of one client, of 10.0 and 20.0, are under dispute together,
\* with no tx id reused and nothing clamped.
C20_Witness ==
    /\ ~reused /\ clamped = {}
    /\ \E c \in DOMAIN accounts :
           /\ Cardinality(OpenDisputes(c)) >= 2
           /\ accounts[c].held = 30 * SCALE
\* C21: every stored transaction's owning client has an account, and the
\* owner of a stored transaction in state ChargedBack is locked.
C21_ChargedBackLocked ==
    \A t \in DOMAIN transactions :
        /\ transactions[t].client \in DOMAIN accounts
        /\ transactions[t].dispute_state = "ChargedBack" =>
               accounts[transactions[t].client].locked

\* A charged-back transaction of a locked client beside a stored transaction
\* of another client, whose account is not locked.
C21_Witness ==
    \E t, u \in DOMAIN transactions :
        /\ transactions[t].dispute_state = "ChargedBack"
        /\ accounts[transactions[t].client].locked
        /\ transactions[u].client # transactions[t].client
        /\ ~accounts[transactions[u].client].locked

=============================================================================
